---- MODULE Spec2Model ----
(***************************************************************************)
(* State-machine model of the easy-state-hook-examples repository: the     *)
(* store-based resource fetcher (fetchStore), the title holder             *)
(* (titleStore / useTitle) and the hook-based fetchers (useFetch, in its   *)
(* closure-over-state and its updater-function forms) composed by          *)
(* usePokemon.                                                             *)
(*                                                                         *)
(* Strings that the code concatenates are sequences of tokens, so that     *)
(* baseURL + path is sequence concatenation.  JavaScript values that may   *)
(* be undefined are records [kind, val]; loading is one of the strings     *)
(* "undefined", "true", "false".                                           *)
(***************************************************************************)
EXTENDS Integers, Sequences, FiniteSets

\* ------------------------------------------------------------------ bounds
\* Number of fetch calls a behaviour may make.
MaxCalls == 2

\* ------------------------------------------------------------- JS values
Undefined == [kind |-> "undefined", val |-> 0]
JSONValue(n) == [kind |-> "json", val |-> n]
\* The rejection of fetch(url) for request r (a network failure).
TypeError(r) == [kind |-> "TypeError", val |-> r]
\* The rejection of resp.json() for request r (a body that is not JSON).
SyntaxError(r) == [kind |-> "SyntaxError", val |-> r]

\* A completion of an awaited expression: a value, or a thrown value.
Normal(v) == [thrown |-> FALSE, value |-> v]
Throw(v) == [thrown |-> TRUE, value |-> v]

\* ------------------------------------------------------- program constants
TEST_URL == <<"https://test.com/">>
POKE_API == <<"https://pokeapi.co/api/v2/pokemon/">>
BaseURLs == {TEST_URL, POKE_API}

\* The names typed into the input, and the paths handed to fetch.
Names == {"ditto", "pikachu"}
Paths == {<<n>> : n \in Names}

\* ------------------------------------------------------- response bodies
\* The bodies the network may answer with: two that decode (to 1 and to 10)
\* and one that does not (a number with a leading zero).
Digits == {"0", "1"}
Bodies == {<<"1">>, <<"1", "0">>, <<"0", "1">>}

DigitValue(ch) == IF ch = "1" THEN 1 ELSE 0

RECURSIVE NumberValue(_)
NumberValue(s) ==
  IF s = <<>> THEN 0
  ELSE 10 * NumberValue(SubSeq(s, 1, Len(s) - 1)) + DigitValue(s[Len(s)])

\* resp.json(): the body decodes when it is a JSON number (digits, with no
\* leading zero unless it is "0" itself); anything else is a SyntaxError.
JSONparse(body, r) ==
  IF /\ Len(body) >= 1
     /\ \A i \in 1..Len(body) : body[i] \in Digits
     /\ (Len(body) = 1 \/ body[1] # "0")
  THEN Normal(JSONValue(NumberValue(body)))
  ELSE Throw(SyntaxError(r))

\* ---------------------------------------------------------------- state
VARIABLES
  baseURL,        \* the base address the fetcher was constructed with
  resource,       \* fetchStore's store: [loading, data, error]
  calls,          \* the fetch calls made: [path, pc, promise, awaiting, dataBefore]
  requests,       \* the requests issued: [url, by, status, body]
  completed,      \* the calls that have resumed, in the order they resumed
  overlapped,     \* a fetch was called while another call was outstanding
  title,          \* titleStore's store: [value]
  documentTitle,  \* document.title
  titleDirty,     \* the title auto-effect is scheduled
  lastStep,       \* the handler of the program that ran last
  variant,        \* which fetcher the page uses: "store", "closure", "updater"
  hState,         \* useFetch's state object: [id, val], val = [loading, data, error]
  hQueue,         \* the setState calls not yet rendered: [op, arg]
  hFetch,         \* the fetch callback of the last render: [deps, state]
  hEffectPending, \* the effect of usePokemon, or of pokeStore, is scheduled
  nameHist        \* the names rendered so far, in order

vars == <<baseURL, resource, calls, requests, completed, overlapped,
          title, documentTitle, titleDirty, lastStep,
          variant, hState, hQueue, hFetch, hEffectPending, nameHist>>

hookVars == <<variant, hState, hQueue, hFetch, hEffectPending, nameHist>>
fetchVars == <<baseURL, resource, calls, requests, completed, overlapped, hookVars>>
titleVars == <<title, documentTitle, titleDirty>>

Outstanding == {c \in DOMAIN calls : calls[c].pc = "await"}

\* ------------------------------------------------------------ fetchStore
\* The mutants of this section are the definitions whose names end in a bug:
\* each is the definition that follows it, changed the way a slip would.

\* baseURL + path, the argument of fetchJSON.
RequestURL_PathOnly(base, path) == path
RequestURL(base, path) == base \o path

\* fetchJSON(url): fetch(url) issues one request.
fetchJSON(url, c) == <<[url |-> url, by |-> c, status |-> "sent", body |-> <<>>]>>

\* What the awaited fetchJSON promise settles to for request r.
Settled(r) ==
  IF requests[r].status = "rejected"
  THEN Throw(TypeError(r))
  ELSE JSONparse(requests[r].body, r)

\* Line 6: the store write made before the try block.
BeforeAwait_NoLoading(res) == res
BeforeAwait(res) == [res EXCEPT !.loading = "true"]

\* Lines 8-14: the try / catch / finally around the await, given what the
\* await completed with.
AfterAwait_KeepsError(res, done) ==
  LET tried == IF done.thrown
               THEN [res EXCEPT !.error = done.value]
               ELSE [res EXCEPT !.data = done.value]
  IN [tried EXCEPT !.loading = "false"]
AfterAwait_NoFinally(res, done) ==
  IF done.thrown
  THEN [res EXCEPT !.error = done.value]
  ELSE [res EXCEPT !.data = done.value, !.error = Undefined, !.loading = "false"]
AfterAwait_DropsData(res, done) ==
  LET tried == IF done.thrown
               THEN [res EXCEPT !.data = Undefined, !.error = done.value]
               ELSE [res EXCEPT !.data = done.value, !.error = Undefined]
  IN [tried EXCEPT !.loading = "false"]
AfterAwait(res, done) ==
  LET tried == IF done.thrown
               THEN [res EXCEPT !.error = done.value]
               ELSE [res EXCEPT !.data = done.value, !.error = Undefined]
  IN [tried EXCEPT !.loading = "false"]

\* The completion of the async function: a throw of the try block is caught
\* at line 10, whose handler and the finally block fall through, so the
\* function returns undefined on either path.
FetchCompletion_Rethrows(done) ==
  IF done.thrown THEN Throw(done.value) ELSE Normal(Undefined)
FetchCompletion(done) ==
  IF done.thrown THEN Normal(Undefined) ELSE Normal(Undefined)

PromiseOf(completion) == IF completion.thrown THEN "rejected" ELSE "fulfilled"

\* resource.fetch(path), up to the await.
Fetch(path) ==
  /\ Len(calls) < MaxCalls
  /\ LET c == Len(calls) + 1
         issued == fetchJSON(RequestURL(baseURL, path), c)
     IN /\ resource' = BeforeAwait(resource)
        /\ requests' = requests \o issued
        /\ calls' = Append(calls, [path |-> path, pc |-> "await",
                                   promise |-> "pending",
                                   awaiting |-> Len(requests) + 1,
                                   dataBefore |-> resource.data])
  /\ overlapped' = (overlapped \/ Outstanding # {})
  /\ lastStep' = "fetch"
  /\ UNCHANGED <<baseURL, completed, titleVars, hookVars>>

\* The network answers request r with a body.
Respond(r, body) ==
  /\ r \in DOMAIN requests
  /\ requests[r].status = "sent"
  /\ requests' = [requests EXCEPT ![r].status = "response", ![r].body = body]
  /\ UNCHANGED <<baseURL, resource, calls, completed, overlapped, titleVars, lastStep, hookVars>>

\* The network fails request r.
Reject(r) ==
  /\ r \in DOMAIN requests
  /\ requests[r].status = "sent"
  /\ requests' = [requests EXCEPT ![r].status = "rejected"]
  /\ UNCHANGED <<baseURL, resource, calls, completed, overlapped, titleVars, lastStep, hookVars>>

\* Call c resumes after its await and runs to its end.
Resume_LatestCallOnly(c) ==
  /\ c \in Outstanding
  /\ requests[calls[c].awaiting].status \in {"response", "rejected"}
  /\ LET done == Settled(calls[c].awaiting)
     IN /\ resource' = IF c = Len(calls) THEN AfterAwait(resource, done) ELSE resource
        /\ calls' = [calls EXCEPT ![c].pc = "done",
                                  ![c].promise = PromiseOf(FetchCompletion(done))]
  /\ completed' = Append(completed, c)
  /\ lastStep' = "resume"
  /\ UNCHANGED <<baseURL, requests, overlapped, titleVars, hookVars>>
Resume(c) ==
  /\ c \in Outstanding
  /\ requests[calls[c].awaiting].status \in {"response", "rejected"}
  /\ LET done == Settled(calls[c].awaiting)
     IN /\ resource' = AfterAwait(resource, done)
        /\ calls' = [calls EXCEPT ![c].pc = "done",
                                  ![c].promise = PromiseOf(FetchCompletion(done))]
  /\ completed' = Append(completed, c)
  /\ lastStep' = "resume"
  /\ UNCHANGED <<baseURL, requests, overlapped, titleVars, hookVars>>

\* ------------------------------------------------------------ titleStore
\* title.onChange(ev), with ev.target.value = v.
OnChange_ResetsFetcher(v) ==
  /\ title' = [title EXCEPT !.value = v]
  /\ titleDirty' = (titleDirty \/ v # title.value)
  /\ lastStep' = "onChange"
  /\ resource' = [resource EXCEPT !.data = Undefined]
  /\ UNCHANGED <<baseURL, calls, requests, completed, overlapped, documentTitle, hookVars>>
OnChange(v) ==
  /\ title' = [title EXCEPT !.value = v]
  /\ titleDirty' = (titleDirty \/ v # title.value)
  /\ lastStep' = "onChange"
  /\ UNCHANGED <<fetchVars, documentTitle>>

\* The auto-effect of titleStore: document.title = title.value.
TitleEffect ==
  /\ titleDirty
  /\ documentTitle' = title.value
  /\ titleDirty' = FALSE
  /\ lastStep' = "titleEffect"
  /\ UNCHANGED <<fetchVars, title>>

\* ----------------------------------------------------------------- Spec
FreshResource ==
  [loading |-> "undefined", data |-> Undefined, error |-> Undefined]

\* fetchStore(baseURL) and titleStore(initalTitle), just constructed.
Init ==
  /\ baseURL \in BaseURLs
  /\ resource = FreshResource
  /\ variant = "store"
  /\ hState = [id |-> 0, val |-> FreshResource]
  /\ hQueue = <<>>
  /\ hFetch = [deps |-> <<>>, state |-> FreshResource]
  /\ hEffectPending = FALSE
  /\ nameHist = <<>>
  /\ calls = <<>>
  /\ requests = <<>>
  /\ completed = <<>>
  /\ overlapped = FALSE
  /\ \E n \in Names : /\ title = [value |-> n]
                      /\ documentTitle = n
  /\ titleDirty = FALSE
  /\ lastStep = "init"

Next ==
  \/ \E p \in Paths : Fetch(p)
  \/ \E r \in 1..MaxCalls, b \in Bodies : Respond(r, b)
  \/ \E r \in 1..MaxCalls : Reject(r)
  \/ \E c \in 1..MaxCalls : Resume(c)
  \/ \E v \in Names : OnChange(v)
  \/ TitleEffect

Spec == Init /\ [][Next]_vars

\* =========================================== useTitle, useFetch, usePokemon
\* A page rendering usePokemon(initialName).  A render commits the queued
\* setState calls; the effects a render schedules run before the next render.

\* document.title before useTitle's effect has run.
InitialDocumentTitle == "React App"

\* The dependency array of useFetch's useCallback: [baseURL, state] where the
\* callback closes over state, [baseURL] where it uses updater functions.
\* An object stands in the array by its identity.
FetchDeps_WithState(v, st) == <<baseURL, st.id>>
FetchDeps_BaseOnly(v, st) == <<baseURL>>
FetchDeps(v, st) ==
  IF v = "closure" THEN <<baseURL, st.id>> ELSE <<baseURL>>

SetState(obj) == [op |-> "set", arg |-> obj]
MergeLoading(l) == [op |-> "loading", arg |-> [FreshResource EXCEPT !.loading = l]]
MergeSuccess(d) == [op |-> "success", arg |-> [FreshResource EXCEPT !.data = d]]
MergeFailure(e) == [op |-> "failure", arg |-> [FreshResource EXCEPT !.error = e]]

\* The state object one queued setState call yields from the state before it.
ApplyUpdate(st, u) ==
  CASE u.op = "set" -> u.arg
    [] u.op = "loading" -> [st EXCEPT !.loading = u.arg.loading]
    [] u.op = "success" -> [st EXCEPT !.data = u.arg.data, !.error = Undefined]
    [] u.op = "failure" -> [st EXCEPT !.error = u.arg.error]

RECURSIVE ApplyAll(_, _)
ApplyAll(st, us) ==
  IF us = <<>> THEN st ELSE ApplyAll(ApplyUpdate(st, Head(us)), Tail(us))

\* The setState call fetch makes before the try block.
StartUpdates_Replaces(v) ==
  <<SetState([FreshResource EXCEPT !.loading = "true"])>>
StartUpdates(v) ==
  IF v = "closure"
  THEN <<SetState([FreshResource EXCEPT !.loading = "true"])>>
  ELSE <<MergeLoading("true")>>

\* The setState calls fetch makes after the await: the try or the catch
\* branch, then the finally block.  `st` is the state the callback closed over.
SettleUpdates(v, st, done) ==
  LET first ==
        IF v = "closure"
        THEN IF done.thrown
             THEN SetState([st EXCEPT !.error = done.value])
             ELSE SetState([st EXCEPT !.data = done.value, !.error = Undefined])
        ELSE IF done.thrown
             THEN MergeFailure(done.value)
             ELSE MergeSuccess(done.value)
  IN <<first, MergeLoading("false")>>

\* A render that commits the first k queued setState calls and the name.
RenderCommit(k, name) ==
  LET st == IF k = 0
            THEN hState
            ELSE [id |-> hState.id + 1,
                  val |-> ApplyAll(hState.val, SubSeq(hQueue, 1, k))]
      deps == FetchDeps(variant, st)
      cb == IF deps = hFetch.deps THEN hFetch ELSE [deps |-> deps, state |-> st.val]
  IN /\ hState' = st
     /\ hQueue' = SubSeq(hQueue, k + 1, Len(hQueue))
     /\ hFetch' = cb
     /\ title' = [title EXCEPT !.value = name]
     /\ titleDirty' = (name # title.value)
     /\ hEffectPending' = (cb.deps # hFetch.deps \/ name # title.value)
     /\ nameHist' = IF name # title.value THEN Append(nameHist, name) ELSE nameHist

\* A render scheduled by setState calls made outside an event handler.
HookRender ==
  /\ ~hEffectPending /\ ~titleDirty
  /\ \E k \in 1..Len(hQueue) : RenderCommit(k, title.value)
  /\ lastStep' = "render"
  /\ UNCHANGED <<baseURL, resource, calls, requests, completed, overlapped,
                 documentTitle, variant>>

\* onNameChange(ev) with ev.target.value = v, and the render that ends the
\* event.  setTitle with the current title schedules nothing.
HookOnChange(v) ==
  /\ ~hEffectPending /\ ~titleDirty
  /\ v # title.value
  /\ Len(nameHist) < MaxCalls
  /\ \E k \in 0..Len(hQueue) : RenderCommit(k, v)
  /\ lastStep' = "onChange"
  /\ UNCHANGED <<baseURL, resource, calls, requests, completed, overlapped,
                 documentTitle, variant>>

\* The effects of the last render: useTitle's, then usePokemon's, which calls
\* fetch(name) up to its await.
HookEffects ==
  /\ hEffectPending \/ titleDirty
  /\ hEffectPending => Len(calls) < MaxCalls
  /\ documentTitle' = IF titleDirty THEN title.value ELSE documentTitle
  /\ titleDirty' = FALSE
  /\ hEffectPending' = FALSE
  /\ IF hEffectPending
     THEN LET c == Len(calls) + 1
              path == <<title.value>>
          IN /\ hQueue' = hQueue \o StartUpdates(variant)
             /\ requests' = requests \o fetchJSON(RequestURL(baseURL, path), c)
             /\ calls' = Append(calls, [path |-> path, pc |-> "await",
                                        promise |-> "pending",
                                        awaiting |-> Len(requests) + 1,
                                        closure |-> hFetch.state])
             /\ overlapped' = (overlapped \/ Outstanding # {})
     ELSE UNCHANGED <<hQueue, requests, calls, overlapped>>
  /\ lastStep' = "effects"
  /\ UNCHANGED <<baseURL, resource, completed, title, variant, hState, hFetch,
                 nameHist>>

\* Call c of the hook's fetch resumes after its await and runs to its end.
HookResume(c) ==
  /\ c \in Outstanding
  /\ requests[calls[c].awaiting].status \in {"response", "rejected"}
  /\ LET done == Settled(calls[c].awaiting)
     IN /\ hQueue' = hQueue \o SettleUpdates(variant, calls[c].closure, done)
        /\ calls' = [calls EXCEPT ![c].pc = "done",
                                  ![c].promise = PromiseOf(FetchCompletion(done))]
  /\ completed' = Append(completed, c)
  /\ lastStep' = "resume"
  /\ UNCHANGED <<baseURL, resource, requests, overlapped, titleVars, variant,
                 hState, hFetch, hEffectPending, nameHist>>

\* The page after its first render, before the effects of that render.
InitHook(v) ==
  /\ baseURL = POKE_API
  /\ resource = FreshResource
  /\ calls = <<>>
  /\ requests = <<>>
  /\ completed = <<>>
  /\ overlapped = FALSE
  /\ \E n \in Names : /\ title = [value |-> n]
                      /\ nameHist = <<n>>
  /\ documentTitle = InitialDocumentTitle
  /\ titleDirty = TRUE
  /\ lastStep = "init"
  /\ variant = v
  /\ hState = [id |-> 0, val |-> FreshResource]
  /\ hQueue = <<>>
  /\ hFetch = [deps |-> FetchDeps(v, [id |-> 0, val |-> FreshResource]),
               state |-> FreshResource]
  /\ hEffectPending = TRUE

NextHook ==
  \/ HookEffects
  \/ HookRender
  \/ \E v \in Names : HookOnChange(v)
  \/ \E r \in 1..MaxCalls, b \in Bodies : Respond(r, b)
  \/ \E r \in 1..MaxCalls : Reject(r)
  \/ \E c \in 1..MaxCalls : HookResume(c)

\* usePokemon over the useFetch whose callback closes over state, on a page
\* whose input is never typed into: the name stays the initial one.
InitLoop == InitHook("closure")

NextLoop ==
  \/ HookEffects
  \/ HookRender
  \/ \E r \in 1..MaxCalls, b \in Bodies : Respond(r, b)
  \/ \E r \in 1..MaxCalls : Reject(r)
  \/ \E c \in 1..MaxCalls : HookResume(c)

SpecLoop == InitLoop /\ [][NextLoop]_vars

\* React runs every render and every effect it has scheduled.
FairSpecLoop == SpecLoop /\ WF_vars(HookRender) /\ WF_vars(HookEffects)

\* usePokemon over the useFetch that uses updater functions.
InitUpdater == InitHook("updater")
SpecHook == InitUpdater /\ [][NextHook]_vars

\* ================================================================ pokeStore
\* pokeStore(initialName): a store holding titleStore(initialName) as name
\* and fetchStore(POKE_API) as data, and an auto-effect.  An auto-effect runs
\* again when a store property it read in its last run is given another
\* value; a property is (store, key).  The effects an event schedules run
\* before the next event is handled.

\* The properties the auto-effect of pokeStore reads while it runs, up to the
\* await inside fetch: pokemon.data, its fetch, pokemon.name, its value.
PokeEffectReads_FetcherData ==
  {<<"pokemon", "data">>, <<"data", "fetch">>, <<"pokemon", "name">>,
   <<"name", "value">>, <<"data", "data">>}
PokeEffectReads ==
  {<<"pokemon", "data">>, <<"data", "fetch">>, <<"pokemon", "name">>,
   <<"name", "value">>}

\* The property the auto-effect of titleStore reads: title.value.
TitleEffectReads_None == {}
TitleEffectReads == {<<"name", "value">>}

\* The properties of store s that differ between its values old and new.
ChangedKeys(s, old, new) ==
  {<<s, k>> : k \in {k \in DOMAIN old : old[k] # new[k]}}

Triggered(reads, writes) == reads \cap writes # {}

\* pokemon.name.onChange(ev), with ev.target.value = v.
PokeOnChange(v) ==
  /\ ~hEffectPending /\ ~titleDirty
  /\ v # title.value => Len(nameHist) < MaxCalls
  /\ LET new == [title EXCEPT !.value = v]
         writes == ChangedKeys("name", title, new)
     IN /\ title' = new
        /\ titleDirty' = Triggered(TitleEffectReads, writes)
        /\ hEffectPending' = Triggered(PokeEffectReads, writes)
        /\ nameHist' = IF v # title.value THEN Append(nameHist, v) ELSE nameHist
  /\ lastStep' = "onChange"
  /\ UNCHANGED <<baseURL, resource, calls, requests, completed, overlapped,
                 documentTitle, variant, hState, hQueue, hFetch>>

\* The scheduled auto-effects: titleStore's, then pokeStore's, which calls
\* pokemon.data.fetch(pokemon.name.value) up to its await.
PokeEffects ==
  /\ hEffectPending \/ titleDirty
  /\ hEffectPending => Len(calls) < MaxCalls
  /\ documentTitle' = IF titleDirty THEN title.value ELSE documentTitle
  /\ titleDirty' = FALSE
  /\ IF hEffectPending
     THEN LET c == Len(calls) + 1
              path == <<title.value>>
              new == BeforeAwait(resource)
          IN /\ resource' = new
             /\ requests' = requests \o fetchJSON(RequestURL(baseURL, path), c)
             /\ calls' = Append(calls, [path |-> path, pc |-> "await",
                                        promise |-> "pending",
                                        awaiting |-> Len(requests) + 1,
                                        dataBefore |-> resource.data])
             /\ overlapped' = (overlapped \/ Outstanding # {})
             /\ hEffectPending' =
                  Triggered(PokeEffectReads, ChangedKeys("data", resource, new))
     ELSE UNCHANGED <<resource, requests, calls, overlapped, hEffectPending>>
  /\ lastStep' = "effects"
  /\ UNCHANGED <<baseURL, completed, title, variant, hState, hQueue, hFetch,
                 nameHist>>

\* Call c of pokemon.data.fetch resumes after its await and runs to its end.
PokeResume(c) ==
  /\ c \in Outstanding
  /\ requests[calls[c].awaiting].status \in {"response", "rejected"}
  /\ LET done == Settled(calls[c].awaiting)
         new == AfterAwait(resource, done)
     IN /\ resource' = new
        /\ calls' = [calls EXCEPT ![c].pc = "done",
                                  ![c].promise = PromiseOf(FetchCompletion(done))]
        /\ hEffectPending' =
             (hEffectPending
                \/ Triggered(PokeEffectReads, ChangedKeys("data", resource, new)))
  /\ completed' = Append(completed, c)
  /\ lastStep' = "resume"
  /\ UNCHANGED <<baseURL, requests, overlapped, titleVars, variant, hState,
                 hQueue, hFetch, nameHist>>

\* pokeStore(initialName), with the first run of its auto-effects scheduled.
InitPoke ==
  /\ baseURL = POKE_API
  /\ resource = FreshResource
  /\ calls = <<>>
  /\ requests = <<>>
  /\ completed = <<>>
  /\ overlapped = FALSE
  /\ \E n \in Names : /\ title = [value |-> n]
                      /\ nameHist = <<n>>
  /\ documentTitle = InitialDocumentTitle
  /\ titleDirty = TRUE
  /\ lastStep = "init"
  /\ variant = "store"
  /\ hState = [id |-> 0, val |-> FreshResource]
  /\ hQueue = <<>>
  /\ hFetch = [deps |-> <<>>, state |-> FreshResource]
  /\ hEffectPending = TRUE

\* The network answers or fails one request.
Network ==
  \/ \E r \in 1..MaxCalls, b \in Bodies : Respond(r, b)
  \/ \E r \in 1..MaxCalls : Reject(r)

PokeResumes == \E c \in 1..MaxCalls : PokeResume(c)

NextPoke ==
  \/ PokeEffects
  \/ \E v \in Names : PokeOnChange(v)
  \/ \E r \in 1..MaxCalls, b \in Bodies : Respond(r, b)
  \/ \E r \in 1..MaxCalls : Reject(r)
  \/ \E c \in 1..MaxCalls : PokeResume(c)

SpecPoke == InitPoke /\ [][NextPoke]_vars

\* Scheduled effects run, every request is answered or fails, and a call
\* whose request has ended resumes.
FairSpecPoke ==
  /\ SpecPoke
  /\ WF_vars(PokeEffects)
  /\ WF_vars(Network)
  /\ WF_vars(PokeResumes)

\* ================================================== fetchStore and useFetch
\* The two pages with a "Fetch pokemon" button, one over fetchStore(POKE_API)
\* and one over useFetch(POKE_API) with updater functions, given the same
\* clicks and the same network: a call stands for the click on both pages,
\* and its request for the request each page issues, ending the same way.

\* The state useFetch holds: the rendered state with the setState calls
\* still queued applied to it, which is what the next render shows.
HookState == ApplyAll(hState.val, hQueue)

\* A click on the button of both pages: fetch("ditto"), up to the await.
PairFetch ==
  /\ Len(calls) < MaxCalls
  /\ LET c == Len(calls) + 1
         path == <<"ditto">>
     IN /\ resource' = BeforeAwait(resource)
        /\ hQueue' = hQueue \o StartUpdates(variant)
        /\ requests' = requests \o fetchJSON(RequestURL(baseURL, path), c)
        /\ calls' = Append(calls, [path |-> path, pc |-> "await",
                                   promise |-> "pending",
                                   awaiting |-> Len(requests) + 1,
                                   dataBefore |-> resource.data,
                                   closure |-> hFetch.state])
  /\ overlapped' = (overlapped \/ Outstanding # {})
  /\ lastStep' = "fetch"
  /\ UNCHANGED <<baseURL, completed, titleVars, variant, hState, hFetch,
                 hEffectPending, nameHist>>

\* Call c resumes after its await on both pages and runs to its end.
PairResume(c) ==
  /\ c \in Outstanding
  /\ requests[calls[c].awaiting].status \in {"response", "rejected"}
  /\ LET done == Settled(calls[c].awaiting)
     IN /\ resource' = AfterAwait(resource, done)
        /\ hQueue' = hQueue \o SettleUpdates(variant, calls[c].closure, done)
        /\ calls' = [calls EXCEPT ![c].pc = "done",
                                  ![c].promise = PromiseOf(FetchCompletion(done))]
  /\ completed' = Append(completed, c)
  /\ lastStep' = "resume"
  /\ UNCHANGED <<baseURL, requests, overlapped, titleVars, variant, hState,
                 hFetch, hEffectPending, nameHist>>

PairResumes == \E c \in 1..MaxCalls : PairResume(c)

\* Both pages after their first render.
InitPair ==
  /\ baseURL = POKE_API
  /\ resource = FreshResource
  /\ calls = <<>>
  /\ requests = <<>>
  /\ completed = <<>>
  /\ overlapped = FALSE
  /\ title = [value |-> "ditto"]
  /\ nameHist = <<"ditto">>
  /\ documentTitle = InitialDocumentTitle
  /\ titleDirty = FALSE
  /\ lastStep = "init"
  /\ variant = "updater"
  /\ hState = [id |-> 0, val |-> FreshResource]
  /\ hQueue = <<>>
  /\ hFetch = [deps |-> FetchDeps("updater", [id |-> 0, val |-> FreshResource]),
               state |-> FreshResource]
  /\ hEffectPending = FALSE

NextPair ==
  \/ PairFetch
  \/ \E r \in 1..MaxCalls, b \in Bodies : Respond(r, b)
  \/ \E r \in 1..MaxCalls : Reject(r)
  \/ \E c \in 1..MaxCalls : PairResume(c)
  \/ HookRender

SpecPair == InitPair /\ [][NextPair]_vars

\* Every request is answered or fails, a call whose request has ended
\* resumes, and a scheduled render runs.
FairSpecPair ==
  /\ SpecPair
  /\ WF_vars(Network)
  /\ WF_vars(PairResumes)
  /\ WF_vars(HookRender)

\* ============================================================ title holders
\* Either composition of a title holder with a fetcher: pokeStore, over
\* titleStore, or usePokemon, over useTitle.
InitTitle == InitPoke \/ InitUpdater

NextTitle ==
  \/ variant = "store" /\ PokeEffects
  \/ variant = "store" /\ \E v \in Names : PokeOnChange(v)
  \/ variant = "store" /\ \E c \in 1..MaxCalls : PokeResume(c)
  \/ variant = "updater" /\ HookEffects
  \/ variant = "updater" /\ HookRender
  \/ variant = "updater" /\ \E v \in Names : HookOnChange(v)
  \/ variant = "updater" /\ \E c \in 1..MaxCalls : HookResume(c)
  \/ \E r \in 1..MaxCalls, b \in Bodies : Respond(r, b)
  \/ \E r \in 1..MaxCalls : Reject(r)

SpecTitle == InitTitle /\ [][NextTitle]_vars

\* ======================================================= claims, fetchStore
LastCompleted == completed[Len(completed)]
\* What call c's request came to: the decoded body, or the failure.
OutcomeOf(c) == Settled(calls[c].awaiting)
Failed(c) == OutcomeOf(c).thrown
SucceededInOrder == SelectSeq(completed, LAMBDA c : ~Failed(c))

\* C1: in a sequence of non-overlapping fetch calls, once a call whose
\* request succeeded has resolved, loading is false, data is the decoded body
\* of that request and error is absent, also after a failed call.
C1_SuccessResolved ==
  (/\ ~overlapped
   /\ lastStep = "resume"
   /\ ~Failed(LastCompleted))
  => /\ resource.loading = "false"
     /\ resource.data = JSONparse(requests[calls[LastCompleted].awaiting].body,
                                  calls[LastCompleted].awaiting).value
     /\ resource.data.kind = "json"
     /\ resource.error = Undefined

\* A success has resolved right after a call that failed.
C1_Witness ==
  /\ ~overlapped
  /\ lastStep = "resume"
  /\ Len(completed) = 2
  /\ Failed(completed[1])
  /\ ~Failed(completed[2])
  /\ resource.data = JSONValue(10)

\* C2: in a sequence of non-overlapping fetch calls, once a call whose
\* request failed (rejected, or a body that does not decode) has resolved,
\* error is that failure, loading is false and data is what it was before the
\* call.
C2_FailureResolved ==
  (/\ ~overlapped
   /\ lastStep = "resume"
   /\ Failed(LastCompleted))
  => /\ resource.loading = "false"
     /\ resource.error \in {TypeError(calls[LastCompleted].awaiting),
                            SyntaxError(calls[LastCompleted].awaiting)}
     /\ (resource.error.kind = "TypeError")
          <=> (requests[calls[LastCompleted].awaiting].status = "rejected")
     /\ resource.data = calls[LastCompleted].dataBefore

\* A body that does not decode has resolved a call made after a success.
C2_Witness ==
  /\ ~overlapped
  /\ lastStep = "resume"
  /\ Len(completed) = 2
  /\ resource.error = SyntaxError(2)
  /\ resource.data = JSONValue(1)

\* C3: loading is true in every state in which a fetch call is outstanding
\* and false or unset in every state in which none is, overlapping calls
\* included.
C3_LoadingIffInFlight ==
  (resource.loading = "true") <=> (Outstanding # {})

\* C4: right after fetch(path) is called, and before the program takes
\* another step, loading is true, whatever the state was before the call.
C4_LoadingAfterCall ==
  lastStep = "fetch" => resource.loading = "true"

\* fetch was called on a store that a failed call left with an error.
C4_Witness ==
  /\ lastStep = "fetch"
  /\ ~overlapped
  /\ resource.error # Undefined
  /\ resource.loading = "true"

\* C5: overlapping calls all run to their end, and once none is outstanding
\* the state is the one the last call to complete wrote: its payload and no
\* error if it succeeded; its failure, with the payload of the latest
\* success before it, if it failed.
C5_LastCompletionWins ==
  (overlapped /\ Outstanding = {})
  => /\ \A c \in DOMAIN calls : calls[c].pc = "done"
     /\ Len(completed) = Len(calls)
     /\ resource.loading = "false"
     /\ resource.error = IF Failed(LastCompleted)
                         THEN OutcomeOf(LastCompleted).value
                         ELSE Undefined
     /\ resource.data = IF SucceededInOrder = <<>>
                        THEN Undefined
                        ELSE OutcomeOf(SucceededInOrder[Len(SucceededInOrder)]).value

\* The second call completed first and the first call last: data is the
\* payload of the call issued first.
C5_Witness ==
  /\ overlapped
  /\ Outstanding = {}
  /\ completed = <<2, 1>>
  /\ requests[calls[1].awaiting].body = <<"1">>
  /\ requests[calls[2].awaiting].body = <<"1", "0">>
  /\ resource.data = JSONValue(1)

\* C6: every call fetch(path) issues exactly one request, to baseURL followed
\* by path, and a failure issues no further request.
C6_OneRequestPerCall ==
  /\ Len(requests) = Len(calls)
  /\ \A c \in DOMAIN calls :
       LET issued == {r \in DOMAIN requests : requests[r].by = c}
       IN /\ Cardinality(issued) = 1
          /\ \A r \in issued : requests[r].url = baseURL \o calls[c].path

\* A call whose request was rejected has ended, and a second call went to
\* the test address followed by its path.
C6_Witness ==
  /\ Len(calls) = 2
  /\ calls[1].pc = "done"
  /\ requests[1].status = "rejected"
  /\ requests[2].url = <<"https://test.com/", "pikachu">>

\* C7: the promise fetch returns never rejects: it is pending while the call
\* is outstanding and fulfilled once the call has ended, however the request
\* ended.
C7_PromiseNeverRejects ==
  \A c \in DOMAIN calls :
    /\ calls[c].promise # "rejected"
    /\ calls[c].pc = "done" => calls[c].promise = "fulfilled"

\* A rejected request and a body that does not decode both ended their calls.
C7_Witness ==
  /\ Len(calls) = 2
  /\ Outstanding = {}
  /\ \E c \in DOMAIN calls : OutcomeOf(c) = Throw(TypeError(calls[c].awaiting))
  /\ \E c \in DOMAIN calls : OutcomeOf(c) = Throw(SyntaxError(calls[c].awaiting))
  /\ \A c \in DOMAIN calls : calls[c].promise = "fulfilled"

\* C8: a fresh fetcher has loading, data and error unset and has issued no
\* request, and the three fields change only in a step of a fetch call.
C8_OnlyFetchWrites ==
  /\ (resource = FreshResource /\ requests = <<>> /\ calls = <<>>)
  /\ [][resource' # resource => lastStep' \in {"fetch", "resume"}]_vars

\* onChange ran while the fetcher held data and a call was outstanding.
C8_Witness ==
  /\ lastStep = "onChange"
  /\ title.value # documentTitle
  /\ resource.data # Undefined
  /\ Outstanding # {}

\* ============================================================ claims, hooks
\* C9: with the useFetch whose callback closes over state, every state
\* change recreates fetch and schedules the effect again, so a render or an
\* effect is always scheduled, and each fetch call is followed by another
\* one although the name never changes, whether or not requests complete
\* (up to the model's bound on calls).
C9_InfiniteLoop ==
  /\ [][hState' # hState => (hFetch' # hFetch /\ hEffectPending')]_vars
  /\ [](hQueue # <<>> \/ hEffectPending)
  /\ \A n \in 0..(MaxCalls - 1) : (Len(calls) = n) ~> (Len(calls) = n + 1)

\* The name never changed, every request issued so far has completed and
\* its call has ended, and fetch was called a second time for the same name.
C9_Witness ==
  /\ Len(nameHist) = 1
  /\ Len(completed) = 1
  /\ Len(calls) = 2
  /\ calls[1].pc = "done"
  /\ requests[2].status \in {"response", "rejected"}
  /\ calls[2].path = calls[1].path

\* C10: with the useFetch that uses updater functions and depends on
\* baseURL alone, the fetch callback stays the same, and the fetch calls are
\* exactly one per rendered name, in order and with that name: the initial
\* name and each change of it, none for a change of loading, data or error.
C10_OneFetchPerName ==
  LET n == Len(nameHist) - (IF hEffectPending THEN 1 ELSE 0)
  IN /\ hFetch.deps = <<baseURL>>
     /\ nameHist[Len(nameHist)] = title.value
     /\ Len(calls) = n
     /\ \A i \in 1..n : calls[i].path = <<nameHist[i]>>

\* The name changed once, both calls ended, their state changes were
\* rendered, and nothing further is scheduled.
C10_Witness ==
  /\ Len(nameHist) = 2
  /\ Len(calls) = 2
  /\ Outstanding = {}
  /\ hQueue = <<>>
  /\ ~hEffectPending
  /\ hState.id >= 3
  /\ hState.val.loading = "false"
  /\ calls[2].path = <<title.value>>

\* ======================================================== claims, pokeStore
\* No effect is scheduled and no fetch call is outstanding.
Quiescent == ~hEffectPending /\ ~titleDirty /\ Outstanding = {}

\* C11: the auto-effect of pokeStore calls data.fetch once at construction
\* and once after every change of name.value, with that value; a step of a
\* fetch call (its start inside the effect, its resumption) never schedules
\* the effect; and once the name stays fixed and the requests complete, the
\* store is quiescent for good.
C11_EffectPerName ==
  /\ [](LET n == Len(nameHist) - (IF hEffectPending THEN 1 ELSE 0)
        IN /\ Len(calls) = n
           /\ \A i \in 1..n : calls[i].path = <<nameHist[i]>>)
  /\ [][calls' # calls
         => (hEffectPending' => (hEffectPending /\ completed' # completed))]_vars
  /\ <>[]Quiescent

\* The name changed once; both calls have ended, the second with a payload,
\* and nothing is scheduled.
C11_Witness ==
  /\ nameHist = <<"ditto", "pikachu">>
  /\ Len(calls) = 2
  /\ Quiescent
  /\ resource.data # Undefined
  /\ resource.loading = "false"
  /\ calls[2].path = <<"pikachu">>

\* ============================================ claims, fetchStore and useFetch
\* C12: when every issued request completes, every fetch call finishes (a
\* finished call stays finished and the calls of a behaviour are finitely
\* many, so from some point on none is outstanding), and whenever no call is
\* outstanding after at least one was made, loading is false in fetchStore
\* and in the state useFetch holds, for overlapping calls and any completion
\* order.
C12_CallsFinishLoadingFalse ==
  /\ <>[](Outstanding = {})
  /\ []((Len(calls) >= 1 /\ Outstanding = {})
          => /\ resource.loading = "false"
             /\ HookState.loading = "false"
             /\ hQueue = <<>> => hState.val.loading = "false")

\* Two overlapping calls ended in the order opposite to their calls, the
\* last on a failure, and the hook has rendered.
C12_Witness ==
  /\ overlapped
  /\ completed = <<2, 1>>
  /\ Failed(1)
  /\ Outstanding = {}
  /\ hQueue = <<>>
  /\ resource.loading = "false"
  /\ hState.val.loading = "false"

\* C14: fetchStore and the updater-function useFetch are observably
\* equivalent: given the same fetch calls and the same order and outcomes of
\* completions, overlapping calls included, the state useFetch holds is the
\* store's loading, data and error after every step, and so is the state it
\* shows once its queued setState calls are rendered.
C14_StoreHookEquivalent ==
  /\ HookState = resource
  /\ hQueue = <<>> => hState.val = resource

\* Two overlapping calls ended in the order opposite to their calls, the
\* second on a payload and the first on a failure; the hook has rendered and
\* shows the payload and the failure, as the store does.
C14_Witness ==
  /\ overlapped
  /\ completed = <<2, 1>>
  /\ hQueue = <<>>
  /\ hState.id >= 2
  /\ hState.val = resource
  /\ resource.data = JSONValue(10)
  /\ resource.error = TypeError(1)
  /\ resource.loading = "false"

\* ======================================================== claims, the title
\* C13: for titleStore and useTitle the held value is the target value of
\* the last onChange event (the initial title before any); document.title is
\* the held value once the title effect has run; and a step that changes the
\* held value changes neither fetcher's state, calls or requests; the value
\* reaches the fetcher only as the path of the next fetch call.
C13_TitleHolder ==
  /\ [](title.value = nameHist[Len(nameHist)])
  /\ [](~titleDirty => documentTitle = title.value)
  /\ [][title' # title
         => /\ resource' = resource
            /\ HookState' = HookState
            /\ calls' = calls
            /\ requests' = requests]_vars
  /\ [][Len(calls') > Len(calls)
         => calls'[Len(calls')].path = <<title.value>>]_vars

\* The title was changed, its effect ran, and the fetch that followed the
\* change was called with the new title while the fetcher held a payload.
C13_Witness ==
  /\ Len(nameHist) = 2
  /\ title.value = nameHist[2]
  /\ documentTitle = nameHist[2]
  /\ ~titleDirty
  /\ Len(calls) = 2
  /\ calls[2].path = <<nameHist[2]>>
  /\ (resource.data # Undefined \/ HookState.data # Undefined)

====
